---- MODULE Spec2Model ----
(***************************************************************************)
(* Multi-session lifecycle manager of echo-whatsapp-server (src/index.ts). *)
(*                                                                         *)
(* The source holds two variants of the server: the first (lines 1-360)    *)
(* and the second (lines 361-601).  The variable `variant` fixes which one *)
(* a behaviour runs; every handler below branches on it where the two      *)
(* differ.  The engine (whatsapp-web.js Client) is the environment: it     *)
(* settles initialize/destroy/sendMessage promises and emits events.       *)
(***************************************************************************)
EXTENDS Integers, Sequences, FiniteSets, TLC

\* ---------------------------------------------------------------- bounds
MaxIds == 2            \* session ids 1..MaxIds
MaxHandles == 2        \* engine handles (new Client) constructed in a run
MaxSockets == 2        \* subscriber connections open at a time

SessionIds == 1..MaxIds
Handles == 1..MaxHandles
Sockets == 1..MaxSockets

NoClient == 0          \* clients.get(id) === undefined
NoSocket == 0
GoneSocket == -1       \* a Socket object whose connection has closed

Variants == {1, 2}
Reasons == {"LOGOUT", "UNPAIRED", "NAVIGATION"}

VARIABLES
    variant,       \* which variant of the server runs
    clients,       \* const clients = new Map<string, Client>()
    nextHandle,    \* number of Client objects constructed so far, plus one
    hid,           \* clientId captured by the handlers of each Client
    owner,         \* socket captured by the pending initialize().catch
    info,          \* Client.info is set
    initState,     \* promise of client.initialize()
    teardown,      \* client.destroy(): never called, pending, done, failed
    sockets,       \* the connections that are open (io.sockets)
    emitted,       \* emissions made by the last step, in order
    last           \* the last step: operation, arguments, response

vars == <<variant, clients, nextHandle, hid, owner, info, initState, teardown, sockets, emitted, last>>

\* ------------------------------------------------------------- helpers
Connected == sockets

\* `${kind}_${clientId}`
EventName(kind, id) == <<kind, id>>

\* `error_${clientId}_Session already exists` (an event name, no payload)
ExistsEventName(id) == <<"error", id, "Session already exists">>

\* io.emit(name, ...): to every connected socket
IoEmit(name) == [name |-> name, to |-> Connected]

\* socket.emit(name, ...): to that socket only, if it is still connected
SocketEmit(s, name) == [name |-> name, to |-> {s} \cap Connected]

\* the record of a step: the operation, its arguments, its response and the
\* registry as the step found it
Step(op, id, h, arg, res) ==
    [op |-> op, id |-> id, h |-> h, arg |-> arg, res |-> res, pre |-> clients]

Registered == {x \in SessionIds : clients[x] # NoClient}

\* clients.clear() in place of clients.delete(clientId)
MapDeleteAll(x) == [y \in SessionIds |-> NoClient]

\* clients.delete(clientId)
MapDelete(x) == [clients EXCEPT ![x] = NoClient]

\* the engine of a constructed Client emits events until its teardown
\* completes; a Client whose initialize rejected emits nothing
Emitting(h) ==
    /\ initState[h] \in {"pending", "resolved"}
    /\ teardown[h] # "done"

\* client.destroy(): the call either raises or returns a pending promise
DestroyOutcomes == {"throws", "async"}

\* teardown[h] # "none" from the first destroy() call on h onwards
CallDestroy(h, outcome) ==
    teardown' = [teardown EXCEPT
                   ![h] = IF outcome = "async" THEN "pending"
                          ELSE IF @ = "none" THEN "failed" ELSE @]

\* the status test of app.get('/api/sessions') the wrong way round
ListSessionsInverted ==
    {[clientId |-> x,
      status |-> IF info[clients[x]] THEN "disconnected" ELSE "connected"]
        : x \in Registered}

\* app.get('/api/sessions'): the sessions of the response
ListSessions ==
    {[clientId |-> x,
      status |-> IF info[clients[x]] THEN "connected" ELSE "disconnected"]
        : x \in Registered}

\* ---------------------------------------------------------------- Init
Init ==
    /\ variant \in Variants
    /\ clients = [x \in SessionIds |-> NoClient]
    /\ nextHandle = 1
    /\ hid = [h \in Handles |-> 0]
    /\ owner = [h \in Handles |-> NoSocket]
    /\ info = [h \in Handles |-> FALSE]
    /\ initState = [h \in Handles |-> "none"]
    /\ teardown = [h \in Handles |-> "none"]
    /\ sockets = {}
    /\ emitted = <<>>
    /\ last = Step("init", 0, 0, "", "")

\* ------------------------------------------------- subscriber connection
\* io.on('connection')
Connect(s) ==
    /\ s \notin sockets
    /\ sockets' = sockets \cup {s}
    /\ emitted' = <<[name |-> <<"connect_confirmation">>, to |-> {s}]>>
    /\ last' = Step("connection", 0, 0, "", "")
    /\ UNCHANGED <<variant, clients, nextHandle, hid, owner, info, initState,
                   teardown>>

\* socket.on('disconnect'): logs only.  The number s is free for a later
\* connection, which is a new Socket object: a closure that captured the
\* closed one now holds GoneSocket
SocketDisconnect(s) ==
    /\ s \in sockets
    /\ sockets' = sockets \ {s}
    /\ owner' = [h \in Handles |-> IF owner[h] = s THEN GoneSocket
                                    ELSE owner[h]]
    /\ emitted' = <<>>
    /\ last' = Step("disconnect", 0, 0, "", "")
    /\ UNCHANGED <<variant, clients, nextHandle, hid, info, initState,
                   teardown>>

\* ---------------------------------------------------------- create_session
\* the branch taken when the id is absent: construct, register, initialize;
\* owner is the socket of the closure that client.initialize().catch keeps
\* until the promise settles
CreateFresh(s, x) ==
    /\ nextHandle <= MaxHandles
    /\ LET h == nextHandle IN
         /\ clients' = [clients EXCEPT ![x] = h]
         /\ hid' = [hid EXCEPT ![h] = x]
         /\ owner' = [owner EXCEPT ![h] = s]
         /\ initState' = [initState EXCEPT ![h] = "pending"]
         /\ nextHandle' = h + 1
         /\ last' = Step("create_session", x, h, "new", "")
    /\ emitted' = <<>>
    /\ UNCHANGED <<variant, info, teardown, sockets>>

\* the branch taken when the id is present: the first variant answers the
\* requester; the second takes its `else if (clients.has(clientId))` branch,
\* which logs only (its last else is never reached)
CreateExisting(s, x) ==
    /\ emitted' =
         IF variant = 1
         THEN <<SocketEmit(s, ExistsEventName(x))>>
              \o (IF info[clients[x]]
                  THEN <<SocketEmit(s, EventName("ready", x))>>
                  ELSE <<>>)
         ELSE <<>>
    /\ last' = Step("create_session", x, clients[x], "exists", "")
    /\ UNCHANGED <<variant, clients, nextHandle, hid, owner, info, initState,
                   teardown, sockets>>

\* create_session without the clients.has(clientId) test
CreateSessionNoCheck(s, x) ==
    /\ s \in sockets
    /\ CreateFresh(s, x)

\* socket.on('create_session')
CreateSession(s, x) ==
    /\ s \in sockets
    /\ IF clients[x] = NoClient THEN CreateFresh(s, x) ELSE CreateExisting(s, x)

\* ------------------------------------------------------ initialize promise
\* a success callback that registers the Client again
InitializeResolvedReinserts(h) ==
    /\ initState[h] = "pending"
    /\ initState' = [initState EXCEPT ![h] = "resolved"]
    /\ owner' = [owner EXCEPT ![h] = NoSocket]
    /\ clients' = [clients EXCEPT ![hid[h]] = h]
    /\ emitted' = <<>>
    /\ last' = Step("init_resolved", hid[h], h, "", "")
    /\ UNCHANGED <<variant, nextHandle, hid, info, teardown, sockets>>

\* client.initialize() resolves: no callback is attached to the success
InitializeResolved(h) ==
    /\ initState[h] = "pending"
    /\ initState' = [initState EXCEPT ![h] = "resolved"]
    /\ owner' = [owner EXCEPT ![h] = NoSocket]
    /\ emitted' = <<>>
    /\ last' = Step("init_resolved", hid[h], h, "", "")
    /\ UNCHANGED <<variant, clients, nextHandle, hid, info, teardown,
                   sockets>>

\* client.initialize().catch(...)
InitializeRejected(h, outcome) ==
    /\ initState[h] = "pending"
    /\ initState' = [initState EXCEPT ![h] = "rejected"]
    /\ owner' = [owner EXCEPT ![h] = NoSocket]
    /\ emitted' = <<SocketEmit(owner[h], EventName("error", hid[h]))>>
    /\ IF variant = 1
       THEN /\ clients' = MapDelete(hid[h])
            /\ CallDestroy(h, outcome)
       ELSE /\ outcome = "async"
            /\ UNCHANGED <<clients, teardown>>
    /\ last' = Step("init_rejected", hid[h], h, outcome, "")
    /\ UNCHANGED <<variant, nextHandle, hid, info, sockets>>

\* ------------------------------------------------------------ engine events
\* client.on('qr')
EngineQr(h) ==
    /\ Emitting(h)
    /\ emitted' = <<IoEmit(EventName("qr", hid[h]))>>
    /\ last' = Step("qr", hid[h], h, "", "")
    /\ UNCHANGED <<variant, clients, nextHandle, hid, owner, info, initState,
                   teardown, sockets>>

\* client.on('qr_max_retries'): only the first variant registers a handler
EngineQrMaxRetries(h, outcome) ==
    /\ Emitting(h)
    /\ IF variant = 1
       THEN /\ clients' = MapDelete(hid[h])
            /\ emitted' = <<IoEmit(EventName("error", hid[h]))>>
            /\ CallDestroy(h, outcome)
       ELSE /\ outcome = "async"
            /\ emitted' = <<>>
            /\ UNCHANGED <<clients, teardown>>
    /\ last' = Step("qr_max_retries", hid[h], h, outcome, "")
    /\ UNCHANGED <<variant, nextHandle, hid, owner, info, initState,
                   sockets>>

\* client.on('ready'); the engine has set client.info before it emits ready
EngineReady(h) ==
    /\ Emitting(h)
    /\ info' = [info EXCEPT ![h] = TRUE]
    /\ emitted' = <<IoEmit(EventName("ready", hid[h]))>>
    /\ last' = Step("ready", hid[h], h, "", "")
    /\ UNCHANGED <<variant, clients, nextHandle, hid, owner, initState,
                   teardown, sockets>>

\* client.on('authenticated'): logs only
EngineAuthenticated(h) ==
    /\ Emitting(h)
    /\ emitted' = <<>>
    /\ last' = Step("authenticated", hid[h], h, "", "")
    /\ UNCHANGED <<variant, clients, nextHandle, hid, owner, info, initState,
                   teardown, sockets>>

\* client.on('auth_failure')
EngineAuthFailure(h, outcome) ==
    /\ Emitting(h)
    /\ emitted' = <<IoEmit(EventName("error", hid[h]))>>
    /\ IF variant = 1
       THEN /\ clients' = MapDelete(hid[h])
            /\ CallDestroy(h, outcome)
       ELSE /\ outcome = "async"
            /\ UNCHANGED <<clients, teardown>>
    /\ last' = Step("auth_failure", hid[h], h, outcome, "")
    /\ UNCHANGED <<variant, nextHandle, hid, owner, info, initState,
                   sockets>>

\* the condition under which client.on('disconnected') deletes the entry
DisconnectRemoves(reason) ==
    IF variant = 1 THEN reason \in {"LOGOUT", "UNPAIRED"} ELSE TRUE

\* client.on('disconnected')
EngineDisconnected(h, reason) ==
    /\ Emitting(h)
    /\ clients' = IF DisconnectRemoves(reason) THEN MapDelete(hid[h])
                  ELSE clients
    /\ emitted' = <<IoEmit(EventName("disconnected", hid[h]))>>
    /\ last' = Step("disconnected", hid[h], h, reason, "")
    /\ UNCHANGED <<variant, nextHandle, hid, owner, info, initState, teardown, sockets>>

\* client.on('message')
EngineMessage(h) ==
    /\ Emitting(h)
    /\ emitted' = <<IoEmit(EventName("message", hid[h]))>>
    /\ last' = Step("message", hid[h], h, "", "")
    /\ UNCHANGED <<variant, clients, nextHandle, hid, owner, info, initState,
                   teardown, sockets>>

\* the promise of client.destroy() settles
TeardownSettles(h, ok) ==
    /\ teardown[h] = "pending"
    /\ teardown' = [teardown EXCEPT ![h] = IF ok THEN "done" ELSE "failed"]
    /\ emitted' = <<>>
    /\ last' = Step("teardown_settled", hid[h], h,
                    IF ok THEN "resolved" ELSE "rejected", "")
    /\ UNCHANGED <<variant, clients, nextHandle, hid, owner, info, initState,
                   sockets>>

\* ------------------------------------------------------------ HTTP endpoints
\* SendOutcome without the `if (!client.info)` return
SendOutcomeNoReadyCheck(x, fieldsPresent, engineOk) ==
    IF ~fieldsPresent
    THEN [res |-> "400 required", engine |-> NoClient]
    ELSE IF clients[x] = NoClient
    THEN [res |-> "404 not found", engine |-> NoClient]
    ELSE [res |-> IF engineOk THEN "200 success" ELSE "500 failure",
          engine |-> clients[x]]

\* app.post('/api/send-message'): the response, and the Client whose
\* sendMessage is called (NoClient when the handler returns before the call).
\* The handler reads the registry only before its await, so the engine's
\* answer is an input of the step.
SendOutcome(x, fieldsPresent, engineOk) ==
    IF ~fieldsPresent
    THEN [res |-> "400 required", engine |-> NoClient]
    ELSE IF clients[x] = NoClient
    THEN [res |-> "404 not found", engine |-> NoClient]
    ELSE IF ~info[clients[x]]
    THEN [res |-> "400 not initialized", engine |-> NoClient]
    ELSE [res |-> IF engineOk THEN "200 success" ELSE "500 failure",
          engine |-> clients[x]]

SendMessage(x, fieldsPresent, engineOk) ==
    /\ LET o == SendOutcome(x, fieldsPresent, engineOk) IN
         /\ o.engine = NoClient => engineOk
         /\ last' = Step("send_message", x, o.engine,
                         IF fieldsPresent THEN "complete" ELSE "missing",
                         o.res)
    /\ emitted' = <<>>
    /\ UNCHANGED <<variant, clients, nextHandle, hid, owner, info, initState,
                   teardown, sockets>>

\* app.get('/api/sessions')
GetSessions ==
    /\ last' = Step("sessions", 0, 0, "", ListSessions)
    /\ emitted' = <<>>
    /\ UNCHANGED <<variant, clients, nextHandle, hid, owner, info, initState,
                   teardown, sockets>>

\* a handler that answers success whether or not the id is registered
DestroySessionAlwaysSuccess(x, outcome) ==
    /\ IF clients[x] # NoClient
       THEN /\ CallDestroy(clients[x], outcome)
            /\ clients' = IF outcome = "throws" THEN clients ELSE MapDelete(x)
            /\ last' = Step("destroy_session", x, clients[x], outcome,
                            IF outcome = "throws" THEN "500 failure"
                            ELSE "200 success")
       ELSE /\ outcome = "async"
            /\ last' = Step("destroy_session", x, NoClient, outcome,
                            "200 success")
            /\ UNCHANGED <<clients, teardown>>
    /\ emitted' = <<>>
    /\ UNCHANGED <<variant, nextHandle, hid, owner, info, initState, sockets>>

\* app.delete('/api/session/:clientId'): destroy() is called before the
\* delete and outside any try; when it raises, the handler stops there and
\* the framework answers 500
DestroySession(x, outcome) ==
    /\ IF clients[x] # NoClient
       THEN /\ CallDestroy(clients[x], outcome)
            /\ clients' = IF outcome = "throws" THEN clients ELSE MapDelete(x)
            /\ last' = Step("destroy_session", x, clients[x],
                            outcome,
                            IF outcome = "throws" THEN "500 failure"
                            ELSE "200 success")
       ELSE /\ outcome = "async"
            /\ last' = Step("destroy_session", x, NoClient,
                            outcome, "404 not found")
            /\ UNCHANGED <<clients, teardown>>
    /\ emitted' = <<>>
    /\ UNCHANGED <<variant, nextHandle, hid, owner, info, initState,
                   sockets>>

Next ==
    \/ \E s \in Sockets : Connect(s)
    \/ \E s \in Sockets : SocketDisconnect(s)
    \/ \E s \in Sockets, x \in SessionIds : CreateSession(s, x)
    \/ \E h \in Handles : InitializeResolved(h)
    \/ \E h \in Handles, o \in DestroyOutcomes : InitializeRejected(h, o)
    \/ \E h \in Handles : EngineQr(h)
    \/ \E h \in Handles, o \in DestroyOutcomes : EngineQrMaxRetries(h, o)
    \/ \E h \in Handles : EngineReady(h)
    \/ \E h \in Handles : EngineAuthenticated(h)
    \/ \E h \in Handles, o \in DestroyOutcomes : EngineAuthFailure(h, o)
    \/ \E h \in Handles, r \in Reasons : EngineDisconnected(h, r)
    \/ \E h \in Handles : EngineMessage(h)
    \/ \E h \in Handles, ok \in BOOLEAN : TeardownSettles(h, ok)
    \/ \E x \in SessionIds, f, ok \in BOOLEAN : SendMessage(x, f, ok)
    \/ GetSessions
    \/ \E x \in SessionIds, o \in DestroyOutcomes : DestroySession(x, o)

Spec == Init /\ [][Next]_vars

\* ------------------------------------------------ recipient normalisation
\* Addresses are strings, modelled as sequences of characters.
MaxLen == 6            \* length of the recipient strings tried

Chars == {"1", "@", "c", ".", "u", "s"}

\* '@c.us'
CanonicalSuffix == <<"@", "c", ".", "u", "s">>

\* the non-empty strings (an empty `to` is answered 400 before the format)
Recipients == UNION {[1..n -> Chars] : n \in 1..MaxLen}

\* String.prototype.includes
Includes(str, sub) ==
    \E i \in 0..(Len(str) - Len(sub)) : SubSeq(str, i + 1, i + Len(sub)) = sub

\* String.prototype.endsWith
EndsWith(str, sub) ==
    /\ Len(sub) <= Len(str)
    /\ SubSeq(str, Len(str) - Len(sub) + 1, Len(str)) = sub

\* const formattedNumber = to.includes('@c.us') ? to : `${to}@c.us`
FormattedNumber(to) ==
    IF Includes(to, CanonicalSuffix) THEN to ELSE to \o CanonicalSuffix

\* the same expression on phoneNumber in app.post('/api/chat-history')
HistoryFormattedNumber(phoneNumber) ==
    IF Includes(phoneNumber, CanonicalSuffix) THEN phoneNumber
    ELSE phoneNumber \o CanonicalSuffix

\* a server with session 1 registered and Ready, as create_session(1) and
\* the ready event of its engine leave it, before any request is recorded
NormInit ==
    /\ variant \in Variants
    /\ clients = [x \in SessionIds |-> IF x = 1 THEN 1 ELSE NoClient]
    /\ nextHandle = 2
    /\ hid = [h \in Handles |-> IF h = 1 THEN 1 ELSE 0]
    /\ owner = [h \in Handles |-> NoSocket]
    /\ info = [h \in Handles |-> h = 1]
    /\ initState = [h \in Handles |-> IF h = 1 THEN "resolved" ELSE "none"]
    /\ teardown = [h \in Handles |-> "none"]
    /\ sockets = {}
    /\ emitted = <<>>
    /\ last = Step("init", 0, 0, "", "")

\* app.post('/api/send-message') with its recipient `to`: arg is `to`, res
\* the address handed to client.sendMessage.  One request is recorded per
\* behaviour.
SendMessageTo(x) ==
    /\ last.op = "init"
    /\ SendOutcome(x, TRUE, TRUE).engine # NoClient
    /\ \E to \in Recipients :
         last' = Step("send_message", x, SendOutcome(x, TRUE, TRUE).engine,
                      to, FormattedNumber(to))
    /\ emitted' = <<>>
    /\ UNCHANGED <<variant, clients, nextHandle, hid, owner, info, initState,
                   teardown, sockets>>

\* app.post('/api/chat-history') (first variant only) with its address: arg
\* is `phoneNumber`, res the address handed to client.getChatById
FetchHistory(x) ==
    /\ last.op = "init"
    /\ variant = 1
    /\ clients[x] # NoClient
    /\ info[clients[x]]
    /\ \E phoneNumber \in Recipients :
         last' = Step("chat_history", x, clients[x], phoneNumber,
                      HistoryFormattedNumber(phoneNumber))
    /\ emitted' = <<>>
    /\ UNCHANGED <<variant, clients, nextHandle, hid, owner, info, initState,
                   teardown, sockets>>

NormNext ==
    \/ \E x \in SessionIds : SendMessageTo(x)
    \/ \E x \in SessionIds : FetchHistory(x)

NormSpec == NormInit /\ [][NormNext]_vars

\* ================================================================ claims
EmittedNames == {emitted[i].name : i \in DOMAIN emitted}

RemovalOps == {"destroy_session", "auth_failure", "qr_max_retries",
               "init_rejected"}

\* the step was taken by the engine handle registered under its session id
ByRegisteredEngine == last.h # NoClient /\ last.pre[last.id] = last.h

\* ---------------------------------------------------------------- C1
\* C1: the registry binds a session id to at most one engine handle, each
\* registered handle is a constructed Client created for that id and is
\* registered under no other id, and a create_session(x) that finds x
\* registered leaves the registry as it was, constructs no Client and starts
\* no initialize.
RegistryWellFormed ==
    \A x \in SessionIds :
        clients[x] # NoClient =>
            /\ clients[x] \in Handles
            /\ clients[x] < nextHandle
            /\ hid[clients[x]] = x
            /\ initState[clients[x]] # "none"
            /\ \A y \in SessionIds : clients[y] = clients[x] => y = x

CreateOnRegisteredKeepsHandle ==
    /\ []RegistryWellFormed
    /\ [][(last'.op = "create_session" /\ clients[last'.id] # NoClient)
            => /\ clients' = clients
               /\ nextHandle' = nextHandle
               /\ initState' = initState
               /\ hid' = hid]_vars

\* a create_session(x) arrived while the first initialize of x was in flight
CreateOnRegisteredWitness ==
    /\ last.op = "create_session"
    /\ last.pre[last.id] # NoClient
    /\ initState[last.pre[last.id]] = "pending"
    /\ clients[last.id] = last.pre[last.id]

\* ---------------------------------------------------------------- C2
\* C2: a disconnect emitted by the engine registered under x removes x if
\* and only if the reason is LOGOUT or UNPAIRED, any other reason leaves x
\* registered with the same handle, and the reason is published for x.
DisconnectRemovesOnlyOnUnlink ==
    (last.op = "disconnected" /\ ByRegisteredEngine) =>
        /\ (clients[last.id] = NoClient) <=> (last.arg \in {"LOGOUT", "UNPAIRED"})
        /\ last.arg \notin {"LOGOUT", "UNPAIRED"} => clients[last.id] = last.h
        /\ EventName("disconnected", last.id) \in EmittedNames

\* ---------------------------------------------------------------- C3
\* C3: after an authentication failure or the exhaustion of the
\* auth-challenge retries reported by the engine registered under x, x is
\* absent: listSessions has no entry for x and sendMessage(x, ...) answers
\* NotFound.
AuthFailureRemovesSession ==
    (last.op \in {"auth_failure", "qr_max_retries"} /\ ByRegisteredEngine) =>
        /\ clients[last.id] = NoClient
        /\ \A e \in ListSessions : e.clientId # last.id
        /\ \A ok \in BOOLEAN :
               SendOutcome(last.id, TRUE, ok).res = "404 not found"

\* ---------------------------------------------------------------- C4
\* C4: when the initialize of the handle registered under x rejects, x is
\* removed from the registry, an error event for x is emitted and the
\* teardown of the failed handle is requested.
InitFailureCleansUp ==
    (last.op = "init_rejected" /\ ByRegisteredEngine) =>
        /\ clients[last.id] = NoClient
        /\ EventName("error", last.id) \in EmittedNames
        /\ teardown[last.h] # "none"

\* ---------------------------------------------------------------- C5
\* C5: a sendMessage with all fields present answers NotFound when x is not
\* registered, NotReady when x is registered without account info, and
\* calls the engine's send exactly when x is registered and Ready; the
\* request never changes the registry.
SendChecksRegistryThenReady ==
    (last.op = "send_message" /\ last.arg = "complete") =>
        LET c == last.pre[last.id] IN
          /\ clients = last.pre
          /\ c = NoClient => last.res = "404 not found" /\ last.h = NoClient
          /\ (c # NoClient /\ ~info[c]) =>
                 last.res = "400 not initialized" /\ last.h = NoClient
          /\ (c # NoClient /\ info[c]) =>
                 last.h = c /\ last.res \in {"200 success", "500 failure"}

\* a send on a registered session that is not Ready was answered NotReady
SendNotReadyWitness ==
    /\ last.op = "send_message"
    /\ last.arg = "complete"
    /\ last.pre[last.id] # NoClient
    /\ ~info[last.pre[last.id]]
    /\ last.res = "400 not initialized"

\* ---------------------------------------------------------------- C6
\* C6: destroySession(x) for an unregistered x answers NotFound, requests no
\* teardown and leaves the registry unchanged; a destroySession(x) that
\* directly follows a successful destroySession(x) answers NotFound and x
\* stays absent.
DestroyAbsentIsNoop ==
    /\ [][(last'.op = "destroy_session" /\ clients[last'.id] = NoClient)
            => /\ last'.res = "404 not found"
               /\ last'.h = NoClient
               /\ clients' = clients
               /\ teardown' = teardown]_vars
    /\ [][(/\ last.op = "destroy_session"
           /\ last.res = "200 success"
           /\ last'.op = "destroy_session"
           /\ last'.id = last.id)
            => /\ clients[last.id] = NoClient
               /\ last'.res = "404 not found"
               /\ clients'[last.id] = NoClient]_vars

\* a destroySession(x) was answered NotFound while the teardown requested by
\* an earlier, successful destroySession(x) is still pending (in the second
\* variant no other handler calls destroy)
DestroyTwiceWitness ==
    /\ variant = 2
    /\ last.op = "destroy_session"
    /\ last.res = "404 not found"
    /\ \E h \in Handles :
           /\ hid[h] = last.id
           /\ teardown[h] = "pending"
           /\ clients[last.id] = NoClient

\* ---------------------------------------------------------------- C7
\* C7: on every path that removes a session, a teardown that fails when it
\* is requested leaves the id out of the registry, a teardown that fails
\* later leaves it out too, and destroySession still answers success.
TeardownFailureStillRemoves ==
    /\ (last.op \in RemovalOps /\ ByRegisteredEngine /\ last.arg = "throws") =>
           /\ clients[last.id] = NoClient
           /\ last.op = "destroy_session" => last.res = "200 success"
    /\ (last.op = "teardown_settled" /\ last.arg = "rejected") =>
           clients[last.id] # last.h

\* ---------------------------------------------------------------- C8
\* C8: only create_session(x) registers x: when x is absent, no completion
\* of an initialize (nor any other step) puts it back.
OnlyCreateRegisters ==
    \A x \in SessionIds :
        (last.pre[x] = NoClient /\ clients[x] # NoClient) =>
            (last.op = "create_session" /\ last.id = x)

\* the initialize of a handle resolved, or rejected, after destroySession
\* had removed its session, and the session is still absent (in the second
\* variant a teardown is in flight only after a successful destroySession)
InitCompletesAfterDestroyWitness ==
    /\ variant = 2
    /\ last.op \in {"init_resolved", "init_rejected"}
    /\ last.pre[last.id] = NoClient
    /\ teardown[last.h] \in {"pending", "done"}
    /\ clients[last.id] = NoClient

LifecycleOps == {"qr", "ready", "auth_failure", "qr_max_retries",
                 "disconnected", "message", "init_rejected"}

LifecyclePublicationsAreBroadcast ==
    last.op \in LifecycleOps =>
        \A i \in DOMAIN emitted :
            /\ emitted[i].to = Connected
            /\ \E k \in {"qr", "ready", "error", "disconnected", "message"} :
                   emitted[i].name = EventName(k, last.id)

\* ---------------------------------------------------------------- C11
\* C11: every engine event about x that the lifecycle table publishes (auth
\* challenge, retries exhausted, authenticated, ready, auth failure,
\* disconnect, inbound message) reaches every connected subscriber, and in
\* emission order: the handler of the event emits exactly one event about x
\* to all of them before the step ends, so no later event can overtake it
\* and none is dropped.
PublishedEngineOps == {"qr", "qr_max_retries", "authenticated", "ready",
                       "auth_failure", "disconnected", "message"}

EngineEventsDeliveredInOrder ==
    (last.op \in PublishedEngineOps /\ ByRegisteredEngine) =>
        /\ Len(emitted) = 1
        /\ emitted[1].to = Connected
        /\ emitted[1].name[2] = last.id

\* ---------------------------------------------------------------- C12
\* C12: when the engine registered under x emits authenticated, an
\* authenticated notice for x is published to the connected subscribers.
AuthenticatedIsPublished ==
    (last.op = "authenticated" /\ ByRegisteredEngine) =>
        \E i \in DOMAIN emitted :
            /\ emitted[i].name = EventName("authenticated", last.id)
            /\ emitted[i].to = Connected

\* ---------------------------------------------------------------- C13
\* C13: a create_session(x) that finds x registered sends ready_x to the
\* requester if x has reached Ready, and sends no ready_x if it has not.
ReadyNotices ==
    {i \in DOMAIN emitted : emitted[i].name = EventName("ready", last.id)}

CreateOnReadySignalsReady ==
    (last.op = "create_session" /\ last.arg = "exists") =>
        IF info[last.pre[last.id]]
        THEN \E i \in ReadyNotices : emitted[i].to # {}
        ELSE ReadyNotices = {}

\* ---------------------------------------------------------------- C14
\* C14: a create_session(x) that finds x registered answers the requester
\* with an error about x, under the name error_x that every other error
\* about x uses, and the registry still holds the one session of x.
CreateTwiceReportsAlreadyExists ==
    (last.op = "create_session" /\ last.arg = "exists") =>
        /\ \E i \in DOMAIN emitted :
               /\ emitted[i].name = EventName("error", last.id)
               /\ emitted[i].to # {}
        /\ clients[last.id] = last.pre[last.id]
        /\ clients[last.id] # NoClient

\* ---------------------------------------------------------------- C15
\* C15: listSessions answers with exactly one entry for each registered id
\* and none for any other id, with status connected exactly when the
\* registered Client has account info and disconnected otherwise; right
\* after the ready event of the engine registered under x the entry of x is
\* connected.
EntriesOf(sessions, x) == {e \in sessions : e.clientId = x}

ListSessionsMatchesRegistry ==
    /\ \A x \in SessionIds :
         /\ clients[x] = NoClient => EntriesOf(ListSessions, x) = {}
         /\ clients[x] # NoClient =>
              EntriesOf(ListSessions, x) =
                {[clientId |-> x,
                  status |-> IF info[clients[x]] THEN "connected"
                             ELSE "disconnected"]}
    /\ \A e \in ListSessions : e.clientId \in SessionIds
    /\ last.op = "sessions" => last.res = ListSessions
    /\ (last.op = "ready" /\ ByRegisteredEngine) =>
         [clientId |-> last.id, status |-> "connected"] \in ListSessions

\* listSessions answered with one connected and one disconnected session
ListSessionsWitness ==
    /\ last.op = "sessions"
    /\ \E e, f \in last.res :
           /\ e.status = "connected"
           /\ f.status = "disconnected"
           /\ e.clientId # f.clientId

\* ---------------------------------------------------------------- C16
\* C16: for a recipient r that does not end with the canonical suffix, the
\* address handed to the engine is the one handed over for r with the
\* suffix appended; a recipient that ends with the suffix is handed over
\* unchanged; and formatting a formatted address changes nothing.  The same
\* for the address of fetchHistory.
NormalizationIsTransparent ==
    last.op \in {"send_message", "chat_history"} =>
        LET r == last.arg IN
          /\ ~EndsWith(r, CanonicalSuffix) =>
                 /\ last.res = FormattedNumber(r \o CanonicalSuffix)
                 /\ last.res = HistoryFormattedNumber(r \o CanonicalSuffix)
          /\ EndsWith(r, CanonicalSuffix) => last.res = r
          /\ FormattedNumber(last.res) = last.res
          /\ HistoryFormattedNumber(last.res) = last.res

\* ---------------------------------------------------------------- C17
\* C17: a callback of a handle whose teardown was requested and that is no
\* longer the one registered under x (its initialize rejecting, auth
\* failure, retry exhaustion, a disconnect) leaves the session that
\* create_session(x) registered since then in the registry.
StaleCallbackOps == {"init_rejected", "auth_failure", "qr_max_retries",
                     "disconnected"}

StaleHandleCannotRemove ==
    (/\ last.op \in StaleCallbackOps
     /\ teardown[last.h] # "none"
     /\ last.pre[last.id] # NoClient
     /\ last.pre[last.id] # last.h) =>
        clients[last.id] = last.pre[last.id]

\* ---------------------------------------------------------------- C18
\* C18: a step that calls destroy() on a handle (destroySession on a
\* registered id; in the first variant also auth failure, retry exhaustion
\* and initialization failure) finds that no destroy() was called on that
\* handle before.
CallsDestroy(step) ==
    /\ step.h # NoClient
    /\ \/ step.op = "destroy_session"
       \/ /\ variant = 1
          /\ step.op \in {"auth_failure", "qr_max_retries", "init_rejected"}

TeardownRequestedAtMostOnce ==
    [][CallsDestroy(last') => teardown[last'.h] = "none"]_vars

\* ---------------------------------------------------------------- C19
\* C19: while x is absent from the registry after a removal that requested
\* teardown, and the teardown of the removed handle is still in flight, an
\* auth-challenge, ready or inbound-message event of that handle is not
\* published.
NoPublicationAfterRemoval ==
    (/\ last.op \in {"qr", "ready", "message"}
     /\ last.pre[last.id] = NoClient
     /\ teardown[last.h] = "pending") =>
        emitted = <<>>
====
